---- MODULE Spec2Model ----
(* Model of the gst command-line tool (main.go): startup, the last-commit   *)
(* banner, the interactive loop and the three-stage search dispatch.        *)
(* Strings are TLA+ strings; the external git process is a nondeterministic *)
(* backend whose response (start fault / exit status / stdout) is drawn     *)
(* from small sets.                                                         *)
EXTENDS Integers, Sequences, FiniteSets, TLC

\* ---------------------------------------------------------------- bounds
MaxReads == 2         \* lines available on standard input before end-of-input
MaxHistLines == 2     \* lines per enumerated history output
MaxFileLines == 21    \* lines per enumerated file-search output

\* ------------------------------------------------------- program constants
PinnedHash == "64fc5dd7"
ShortLen == 8
RecentCap == 1
HistoryCap == 10
FilesCap == 20
DetailMinFields == 5
HistoryMinFields == 4

\* ------------------------------------------------- strings (Go "strings")
Char(s, i) == SubSeq(s, i, i)

IsSpace(c) == c \in {" ", "\n", "\t", "\r"}

RECURSIVE TrimLeft(_)
TrimLeft(s) ==
    IF Len(s) > 0 /\ IsSpace(Char(s, 1)) THEN TrimLeft(SubSeq(s, 2, Len(s))) ELSE s

RECURSIVE TrimRight(_)
TrimRight(s) ==
    IF Len(s) > 0 /\ IsSpace(Char(s, Len(s))) THEN TrimRight(SubSeq(s, 1, Len(s) - 1)) ELSE s

TrimSpace(s) == TrimRight(TrimLeft(s))

\* index of the first occurrence of the one-character separator, 0 if none
RECURSIVE IndexFrom(_, _, _)
IndexFrom(s, sep, i) ==
    IF i > Len(s) THEN 0
    ELSE IF Char(s, i) = sep THEN i
    ELSE IndexFrom(s, sep, i + 1)

\* strings.Split: always at least one element, Split("", sep) = <<"">>
RECURSIVE Split(_, _)
Split(s, sep) ==
    LET i == IndexFrom(s, sep, 1) IN
    IF i = 0 THEN << s >>
    ELSE << SubSeq(s, 1, i - 1) >> \o Split(SubSeq(s, i + 1, Len(s)), sep)

\* s[:8]: defined only when the string has at least 8 characters
CanSlice(h) == Len(h) >= ShortLen
ShortHash(h) == SubSeq(h, 1, ShortLen)

RECURSIVE Join(_, _)
Join(ls, sep) ==
    IF ls = << >> THEN ""
    ELSE IF Len(ls) = 1 THEN ls[1]
    ELSE ls[1] \o sep \o Join(Tail(ls), sep)

RECURSIVE Repeat(_, _)
Repeat(x, n) == IF n = 0 THEN << >> ELSE << x >> \o Repeat(x, n - 1)

\* ----------------------------------------------------- backend responses
\* started = FALSE: the process could not be run (err is not an ExitError)
Resp(started, code, out) == [started |-> started, code |-> code, out |-> out]
Failed(r) == ~r.started \/ r.code # 0

Ok(v) == [err |-> FALSE, val |-> v]
Err == [err |-> TRUE, val |-> << >>]

\* getLastCommitDetails: one record or an error
DetailFields(parts) ==
    [hash |-> parts[1], author |-> parts[2], email |-> parts[3], date |-> parts[4],
     subject |-> parts[5], body |-> IF Len(parts) > 5 THEN parts[6] ELSE ""]

getLastCommitDetails(r) ==
    IF Failed(r) THEN Err
    ELSE LET parts == Split(TrimSpace(r.out), "|") IN
         IF Len(parts) < DetailMinFields THEN Err
         ELSE Ok(<< DetailFields(parts) >>)

\* variant: the first malformed line ends the list parse
RECURSIVE ParseHistoryLinesAbort(_)
ParseHistoryLinesAbort(lines) ==
    IF lines = << >> THEN << >>
    ELSE LET line == Head(lines)
             parts == Split(line, "|") IN
         IF line = "" THEN ParseHistoryLinesAbort(Tail(lines))
         ELSE IF Len(parts) >= HistoryMinFields
              THEN << [hash |-> parts[1], author |-> parts[2],
                       date |-> parts[3], subject |-> parts[4]] >>
                     \o ParseHistoryLinesAbort(Tail(lines))
              ELSE << >>

\* searchInCommitHistory: the parsed lines, in order
RECURSIVE ParseHistoryLines(_)
ParseHistoryLines(lines) ==
    IF lines = << >> THEN << >>
    ELSE LET line == Head(lines)
             parts == Split(line, "|")
             rest == ParseHistoryLines(Tail(lines)) IN
         IF line = "" THEN rest
         ELSE IF Len(parts) >= HistoryMinFields
              THEN << [hash |-> parts[1], author |-> parts[2],
                       date |-> parts[3], subject |-> parts[4]] >> \o rest
              ELSE rest

searchInCommitHistory(r) ==
    IF Failed(r) THEN Err
    ELSE Ok(ParseHistoryLines(Split(TrimSpace(r.out), "\n")))

\* variant: every exit status of a started process counts as "no matches"
NoMatchStatusAny(r) == r.started

\* searchInFiles: exit status 1 is "no matches"; the list is cut at maxResults
NoMatchStatus(r) == r.started /\ r.code = 1

searchInFiles(r, maxResults) ==
    IF Failed(r)
    THEN IF NoMatchStatus(r) THEN Ok(<< >>) ELSE Err
    ELSE LET lines == Split(TrimSpace(r.out), "\n") IN
         Ok(IF Len(lines) > maxResults THEN SubSeq(lines, 1, maxResults) ELSE lines)

\* --------------------------------------------------------------- console
Stages == {"recent", "history", "files"}

Line(k, stage, n, text) == [k |-> k, stage |-> stage, n |-> n, text |-> text]

\* "%d. [%s] %s - %s (%s)" with the ordinal kept as a number
CommitText(c) ==
    "[" \o ShortHash(c.hash) \o "] " \o c.subject \o " - " \o c.author \o " (" \o c.date \o ")"

\* the range loops of performSearch over the parsed commits: the lines printed
\* before the loop ends or the slice expression panics
RECURSIVE RenderCommits(_, _, _, _)
RenderCommits(commits, i, stage, pinnedOnly) ==
    IF i > Len(commits) THEN [lines |-> << >>, panic |-> FALSE]
    ELSE IF ~CanSlice(commits[i].hash) THEN [lines |-> << >>, panic |-> TRUE]
    ELSE LET rest == RenderCommits(commits, i + 1, stage, pinnedOnly)
             here == IF pinnedOnly /\ ShortHash(commits[i].hash) # PinnedHash
                     THEN << >>
                     ELSE << Line("result", stage, i, CommitText(commits[i])) >> IN
         [lines |-> here \o rest.lines, panic |-> rest.panic]

NoCall == [op |-> "none", cap |-> 0, resp |-> Resp(FALSE, 0, ""), ret |-> Err]

RECURSIVE RenderMatches(_, _)
RenderMatches(matches, i) ==
    IF i > Len(matches) THEN << >>
    ELSE << Line("result", "files", i, matches[i]) >> \o RenderMatches(matches, i + 1)

\* variant: the notice one match early
ShowNoticeNear(n) == n >= FilesCap - 1

ShowNotice(n) == n = FilesCap

\* ------------------------------------------------------- enumerated inputs
QueryFlags == {"", "fix"}
InputLines == {" fix\t", "q", " quit ", "exit", "Q", "", " \t"}

GoodLine == "64fc5dd7aa|al|d1|fix"
HistLineSamples ==
    {GoodLine, "0123456789|bo|d2|fix it|now", "abc|al|d1|fix", "deadbeef00|al|d1"}

HistLineSeqs(limit) ==
    UNION {[1..n -> HistLineSamples] :
             n \in 0..(IF limit < MaxHistLines THEN limit ELSE MaxHistLines)}

HistoryOutputs(limit) ==
    {Join(ls, "\n") \o "\n" : ls \in HistLineSeqs(limit)}
      \cup {Join(Repeat(GoodLine, n), "\n") : n \in {m \in {9, 10} : m <= limit}}

ErrorResponses == {Resp(TRUE, 1, ""), Resp(TRUE, 128, ""), Resp(FALSE, 0, "")}

HistoryResponses(limit) ==
    {Resp(TRUE, 0, o) : o \in HistoryOutputs(limit)} \cup ErrorResponses

DetailOutputs ==
    {"", "64fc5dd7aa|al|al@x", "64fc5dd7aa|al|al@x|d1", "64fc5dd7aa|al|al@x|d1|fix|",
     "64fc5dd7aa|al|al@x|d1|fix|body\nmore|tail\n", "abc|al|al@x|d1|fix|", "|al|al@x|d1|fix"}

DetailResponses ==
    {Resp(TRUE, 0, o) : o \in DetailOutputs} \cup {Resp(TRUE, 128, ""), Resp(FALSE, 0, "")}

FileOutputs ==
    {Join(Repeat("a.go:1:fix", n), "\n") \o "\n" : n \in {0, 1} \cup (FilesCap - 1)..MaxFileLines}
      \cup {"", " \n"}

FileResponses ==
    {Resp(TRUE, 0, o) : o \in FileOutputs}
      \cup {Resp(TRUE, 1, ""), Resp(TRUE, 1, "a.go:1:fix\n"), Resp(TRUE, 2, ""),
            Resp(TRUE, 128, ""), Resp(FALSE, 0, "")}

\* ------------------------------------------------------------------ state
VARIABLES
    pc,          \* position of the program
    showHelp,    \* -help
    pathOK,      \* the path resolves, exists and holds a .git entry
    queryFlag,   \* -query
    mode,        \* "none", "oneshot" or "interactive"
    query,       \* argument of the running performSearch
    lastInput,   \* outcome of the last scanner.Scan
    reads,       \* lines consumed from standard input
    dispatches,  \* calls of performSearch
    console,     \* lines written by the running call (stdout and the log)
    calls,       \* backend invocations of the running performSearch
    outcome,     \* per stage: "none", "results", "empty", "error", "panic"
    count,       \* per stage: length of the returned list
    lastCall     \* the last backend invocation of the running call and what it returned

vars == << pc, showHelp, pathOK, queryFlag, mode, query, lastInput, reads, dispatches,
           console, calls, outcome, count, lastCall >>

flags == << showHelp, pathOK, queryFlag >>
search == << console, calls, outcome, count, lastCall >>

NoInput == [eof |-> FALSE, text |-> "", seen |-> FALSE]

Init ==
    /\ pc = "start"
    /\ showHelp \in BOOLEAN
    /\ pathOK \in BOOLEAN
    /\ queryFlag \in QueryFlags
    /\ mode = "none"
    /\ query = ""
    /\ lastInput = NoInput
    /\ reads = 0
    /\ dispatches = 0
    /\ console = << >>
    /\ calls = << >>
    /\ outcome = [s \in Stages |-> "none"]
    /\ count = [s \in Stages |-> 0]
    /\ lastCall = NoCall

\* ------------------------------------------------------------------- main
mainHelp ==
    /\ pc = "start" /\ showHelp
    /\ pc' = "helped"
    /\ UNCHANGED << flags, mode, query, lastInput, reads, dispatches, search >>

mainFatal ==
    /\ pc = "start" /\ ~showHelp /\ ~pathOK
    /\ pc' = "fatal"
    /\ UNCHANGED << flags, mode, query, lastInput, reads, dispatches, search >>

mainStart ==
    /\ pc = "start" /\ ~showHelp /\ pathOK
    /\ pc' = "display"
    /\ UNCHANGED << flags, mode, query, lastInput, reads, dispatches, search >>

displayLastCommit ==
    /\ pc = "display"
    /\ \E r \in DetailResponses :
         LET ret == getLastCommitDetails(r)
             banner == << Line("header", "banner", 0, "=== Last Commit Information ===") >> IN
         /\ lastCall' = [op |-> "details", cap |-> 1, resp |-> r, ret |-> ret]
         /\ IF ret.err
            THEN /\ console' = banner \o << Line("diag", "banner", 0, "Error getting commit details") >>
                 /\ pc' = "handle"
            ELSE LET d == ret.val[1] IN
                 IF ~CanSlice(d.hash)
                 THEN /\ console' = banner
                      /\ pc' = "crashed"
                 ELSE /\ console' = banner \o
                           << Line("result", "banner", 0, "Hash:    " \o ShortHash(d.hash)),
                              Line("result", "banner", 0, "Subject: " \o d.subject) >>
                      /\ pc' = "handle"
    /\ UNCHANGED << flags, mode, query, lastInput, reads, dispatches, calls, outcome, count >>

\* entry of performSearch: the title line; the three stages follow
BeginSearch(q) ==
    /\ query' = q
    /\ dispatches' = dispatches + 1
    /\ console' = << Line("title", "none", 0, q) >>
    /\ calls' = << >>
    /\ outcome' = [s \in Stages |-> "none"]
    /\ count' = [s \in Stages |-> 0]
    /\ lastCall' = NoCall
    /\ pc' = "recent"

\* variant: the mode test inverted
OneShotInverted(flag) == flag = ""

OneShot(flag) == flag # ""

mainHandle ==
    /\ pc = "handle"
    /\ IF OneShot(queryFlag)
       THEN /\ mode' = "oneshot"
            /\ BeginSearch(queryFlag)
       ELSE /\ mode' = "interactive"
            /\ pc' = "AwaitingInput"
            /\ UNCHANGED << query, dispatches, search >>
    /\ UNCHANGED << flags, lastInput, reads >>

\* -------------------------------------------------------- interactiveSearch
\* variant: exit tokens compared without regard to case
IsExitTokenFold(q) == q \in {"quit", "exit", "q", "QUIT", "EXIT", "Q"}

IsExitToken(q) == q = "quit" \/ q = "exit" \/ q = "q"

ScanEOF ==
    /\ lastInput' = [eof |-> TRUE, text |-> "", seen |-> TRUE]
    /\ pc' = "Terminated"
    /\ UNCHANGED << query, reads, dispatches, search >>

ScanLine(line) ==
    LET q == TrimSpace(line) IN
    /\ lastInput' = [eof |-> FALSE, text |-> line, seen |-> TRUE]
    /\ reads' = reads + 1
    /\ IF IsExitToken(q)
       THEN /\ pc' = "Terminated"
            /\ UNCHANGED << query, dispatches, search >>
       ELSE IF q = ""
       THEN /\ pc' = "AwaitingInput"
            /\ UNCHANGED << query, dispatches, search >>
       ELSE BeginSearch(q)

interactiveSearch ==
    /\ pc = "AwaitingInput"
    /\ \/ ScanEOF
       \/ /\ reads < MaxReads
          /\ \E line \in InputLines : ScanLine(line)
    /\ UNCHANGED << flags, mode >>

\* ------------------------------------------------------ performSearch stages
Header(stage) ==
    Line("header", stage, 0,
         IF stage = "files" THEN "--- File Contents ---" ELSE "--- Commit Messages ---")

CommitStage(stage, cap, pinnedOnly, next) ==
    /\ pc = stage
    /\ \E r \in HistoryResponses(cap) :
         LET ret == searchInCommitHistory(r)
             shown == RenderCommits(ret.val, 1, stage, pinnedOnly) IN
         /\ lastCall' = [op |-> "history", cap |-> cap, resp |-> r, ret |-> ret]
         /\ calls' = Append(calls, << "history", cap >>)
         /\ count' = [count EXCEPT ![stage] = Len(ret.val)]
         /\ IF ret.err
            THEN /\ console' = console \o << Header(stage),
                                   Line("diag", stage, 0, "Error searching commits") >>
                 /\ outcome' = [outcome EXCEPT ![stage] = "error"]
                 /\ pc' = next
            ELSE IF Len(ret.val) = 0
            THEN /\ console' = console \o << Header(stage),
                                   Line("nomatch", stage, 0, "No matches found in commit messages.") >>
                 /\ outcome' = [outcome EXCEPT ![stage] = "empty"]
                 /\ pc' = next
            ELSE /\ console' = console \o << Header(stage) >> \o shown.lines
                 /\ outcome' = [outcome EXCEPT ![stage] = IF shown.panic THEN "panic" ELSE "results"]
                 /\ pc' = IF shown.panic THEN "crashed" ELSE next
    /\ UNCHANGED << flags, mode, query, lastInput, reads, dispatches >>

RecentStage == CommitStage("recent", RecentCap, TRUE, "history")

HistoryStage == CommitStage("history", HistoryCap, FALSE, "files")

FileStage ==
    /\ pc = "files"
    /\ \E r \in FileResponses :
         LET ret == searchInFiles(r, FilesCap) IN
         /\ lastCall' = [op |-> "files", cap |-> FilesCap, resp |-> r, ret |-> ret]
         /\ calls' = Append(calls, << "files", FilesCap >>)
         /\ count' = [count EXCEPT !["files"] = Len(ret.val)]
         /\ IF ret.err
            THEN /\ console' = console \o << Header("files"),
                                   Line("diag", "files", 0, "Error searching files"),
                                   Line("blank", "none", 0, "") >>
                 /\ outcome' = [outcome EXCEPT !["files"] = "error"]
            ELSE IF Len(ret.val) = 0
            THEN /\ console' = console \o << Header("files"),
                                   Line("nomatch", "files", 0, "No matches found in tracked files."),
                                   Line("blank", "none", 0, "") >>
                 /\ outcome' = [outcome EXCEPT !["files"] = "empty"]
            ELSE /\ console' = console \o << Header("files") >> \o RenderMatches(ret.val, 1)
                                   \o (IF ShowNotice(Len(ret.val))
                                       THEN << Line("notice", "files", 0, "... (showing first 20 matches)") >>
                                       ELSE << >>)
                                   \o << Line("blank", "none", 0, "") >>
                 /\ outcome' = [outcome EXCEPT !["files"] = "results"]
    /\ pc' = IF mode = "oneshot" THEN "Terminated" ELSE "AwaitingInput"
    /\ UNCHANGED << flags, mode, query, lastInput, reads, dispatches >>

Next ==
    \/ mainHelp
    \/ mainFatal
    \/ mainStart
    \/ displayLastCommit
    \/ mainHandle
    \/ interactiveSearch
    \/ RecentStage
    \/ HistoryStage
    \/ FileStage

Spec == Init /\ [][Next]_vars

TypeOK ==
    /\ pc \in {"start", "helped", "fatal", "display", "handle", "AwaitingInput",
               "recent", "history", "files", "Terminated", "crashed"}
    /\ mode \in {"none", "oneshot", "interactive"}
    /\ reads \in 0..MaxReads
    /\ dispatches \in 0..(MaxReads + 1)

\* ------------------------------------------------------ auxiliary operators
AllCalls == << << "history", RecentCap >>, << "history", HistoryCap >>, << "files", FilesCap >> >>

InDispatch == pc \in {"recent", "history", "files"}

HasLine(k, stage) == \E i \in DOMAIN console : console[i].k = k /\ console[i].stage = stage

Cap(stage) == CASE stage = "recent" -> RecentCap
                [] stage = "history" -> HistoryCap
                [] stage = "files" -> FilesCap

RECURSIVE PipeCount(_)
PipeCount(s) ==
    IF Len(s) = 0 THEN 0
    ELSE (IF Char(s, 1) = "|" THEN 1 ELSE 0) + PipeCount(SubSeq(s, 2, Len(s)))

RECURSIVE UpToPipe(_)
UpToPipe(s) ==
    IF Len(s) = 0 \/ Char(s, 1) = "|" THEN "" ELSE Char(s, 1) \o UpToPipe(SubSeq(s, 2, Len(s)))

WellFormed(line) == PipeCount(line) >= 3

RawLines(out) == Split(TrimSpace(out), "\n")

\* ------------------------------------------------------------------ claims

\* C1: once a dispatch is over, the backend was invoked for all three stages,
\* in the order recent (history, cap 1), history (cap 10), files (cap 20),
\* whatever the earlier stages produced; while it runs the invocations are a
\* prefix of that order.
C1_AllStagesAttempted ==
    /\ Len(calls) <= 3 /\ calls = SubSeq(AllCalls, 1, Len(calls))
    /\ (dispatches > 0 /\ ~InDispatch) => calls = AllCalls

\* C2: searchInFiles returns an empty list without error for exit status 1
\* with empty output, an error for every other non-zero status and for a
\* process that could not be run; an error never stands for exit status 1 and
\* an empty list never stands for a fault.
C2_FileStatusMapping ==
    lastCall.op = "files" =>
        LET r == lastCall.resp
            ret == lastCall.ret IN
        /\ (r.started /\ r.code = 1 /\ r.out = "") => (~ret.err /\ ret.val = << >>)
        /\ (~r.started \/ r.code \notin {0, 1}) => ret.err
        /\ ret.err => (~r.started \/ r.code \notin {0, 1})
        /\ (~ret.err /\ ret.val = << >>) => (r.started /\ r.code = 1)
        /\ Len(calls) = 3 => (outcome["files"] = "error" <=> ret.err)

C2_Witness ==
    /\ lastCall.op = "files" /\ Len(calls) = 3
    /\ lastCall.resp = Resp(TRUE, 1, "")
    /\ lastCall.ret = Ok(<< >>)
    /\ outcome["files"] = "empty"

\* C3: a step of the interactive loop starts a dispatch exactly when the
\* trimmed line is non-empty and is none of "quit", "exit", "q"; an exit
\* token or end-of-input ends the loop without a dispatch; an empty line
\* keeps the loop waiting without a dispatch.
C3_DispatchIffQuery ==
    [][pc = "AwaitingInput" =>
         LET in == lastInput'
             q == TrimSpace(in.text)
             token == ~in.eof /\ q \in {"quit", "exit", "q"}
             dispatched == dispatches' = dispatches + 1 /\ pc' = "recent" /\ query' = q IN
         /\ dispatched <=> (~in.eof /\ ~token /\ q # "")
         /\ ~dispatched => dispatches' = dispatches
         /\ (in.eof \/ token) => pc' = "Terminated"
         /\ (~in.eof /\ q = "") => pc' = "AwaitingInput"]_vars

C3_Witness ==
    /\ mode = "interactive" /\ pc = "recent"
    /\ lastInput = [eof |-> FALSE, text |-> " fix\t", seen |-> TRUE]
    /\ query = "fix" /\ dispatches = 1

\* C4: a dispatch of the interactive loop in which a stage ended in an error
\* never ends the program: the loop goes on to the next stage or query.
C4_ErrorsNeverAbort ==
    (mode = "interactive" /\ \E s \in Stages : outcome[s] = "error") => pc # "crashed"

C6_ShortHashGraceful == pc # "crashed"

\* C7: getLastCommitDetails returns an error and no record when the trimmed
\* output has fewer than 5 pipe-separated fields; searchInCommitHistory
\* returns, in backend order, exactly the lines with at least 4 fields.
C7_MalformedPolicy ==
    /\ (lastCall.op = "details" /\ ~Failed(lastCall.resp)
          /\ PipeCount(TrimSpace(lastCall.resp.out)) < 4)
         => (lastCall.ret.err /\ lastCall.ret.val = << >>)
    /\ (lastCall.op = "details" /\ ~Failed(lastCall.resp)
          /\ PipeCount(TrimSpace(lastCall.resp.out)) >= 4)
         => (~lastCall.ret.err /\ Len(lastCall.ret.val) = 1)
    /\ (lastCall.op = "history" /\ ~Failed(lastCall.resp))
         => LET good == SelectSeq(RawLines(lastCall.resp.out), WellFormed)
                recs == lastCall.ret.val IN
            /\ ~lastCall.ret.err
            /\ Len(recs) = Len(good)
            /\ \A i \in 1..Len(good) : recs[i].hash = UpToPipe(good[i])

C7_Witness ==
    /\ lastCall.op = "history"
    /\ lastCall.resp = Resp(TRUE, 0, "deadbeef00|al|d1\n" \o GoodLine \o "\n")
    /\ Len(lastCall.ret.val) = 1
    /\ lastCall.ret.val[1].hash = "64fc5dd7aa"

\* C8: a successful history or file search whose output is empty after
\* trimming returns a list of length 0 and no error.
C8_EmptyOutputEmptyList ==
    (lastCall.op \in {"history", "files"} /\ ~Failed(lastCall.resp)
       /\ TrimSpace(lastCall.resp.out) = "")
      => (~lastCall.ret.err /\ Len(lastCall.ret.val) = 0)

\* C9: every finished stage shows something after its header: a result line
\* when it returned results, the no-match line when it returned none, a
\* diagnostic or error marker when it failed.
C9_NoSilentStage ==
    \A s \in Stages :
        /\ outcome[s] = "results" => HasLine("result", s)
        /\ outcome[s] = "empty" => HasLine("nomatch", s)
        /\ outcome[s] = "error" => (HasLine("diag", s) \/ HasLine("marker", s))

\* C10: with a non-empty -query the program runs performSearch exactly once,
\* for that query, never reads standard input and never waits for input;
\* with an empty -query it runs the interactive loop, which ends only on input.
C10_OneShot ==
    /\ mode = "oneshot" =>
         /\ queryFlag # "" /\ query = queryFlag
         /\ dispatches = 1 /\ reads = 0 /\ ~lastInput.seen
         /\ pc \in {"recent", "history", "files", "Terminated", "crashed"}
    /\ mode = "interactive" => queryFlag = ""
    /\ pc \in {"recent", "history", "files", "Terminated", "AwaitingInput"} =>
         mode = (IF queryFlag # "" THEN "oneshot" ELSE "interactive")
    /\ (pc = "Terminated" /\ mode = "interactive") => lastInput.seen

C10_Witness ==
    /\ pc = "Terminated" /\ mode = "oneshot"
    /\ dispatches = 1 /\ calls = AllCalls /\ reads = 0
====
